---- MODULE Spec2Model ----
(***************************************************************************)
(* S3_loader/download.py: the download dispatcher (download_parallel) and  *)
(* the per-product fetcher (download_single_product) with its helpers.     *)
(* Byte strings and text are sequences of one-character strings; Python's  *)
(* None is the value None below, which no byte string equals.              *)
(***************************************************************************)
EXTENDS Integers, Sequences, FiniteSets, TLC

\* ---------------------------------------------------------------- bounds
\* longest input list uuids_names that is explored
MaxLen == 3

\* ------------------------------------------------------------- constants
None == <<"None">>

DAAC_PRODUCTS == <<
    <<"O","L","_","1","_","E","F","R","_","_","_">>,
    <<"O","L","_","1","_","E","R","R","_","_","_">>,
    <<"S","L","_","1","_","R","B","T","_","_","_">>,
    <<"S","Y","_","2","_","S","Y","N","_","_","_">>
>>

\* two product names in the archive's fixed format (94 characters each);
\* the first is of a type mirrored at DAAC, the second is not
TextEFR ==
    <<"S","3","A","_","O","L","_","1","_","E","F","R","_","_","_","_","2","0",
    "1","8","0","9","0","1","T","1","0","3","8","2","2","_","2","0","1","8",
    "0","9","0","1","T","1","0","4","1","2","2","_","2","0","1","8","0","9",
    "0","2","T","1","5","4","6","2","1","_","0","1","7","9","_","0","3","5",
    "_","1","6","5","_","2","3","4","0","_","L","N","1","_","O","_","N","T",
    "_","0","0","2">>

TextLST ==
    <<"S","3","A","_","S","L","_","2","_","L","S","T","_","_","_","_","2","0",
    "1","8","0","9","0","1","T","1","0","3","8","2","2","_","2","0","1","8",
    "0","9","0","1","T","1","0","4","1","2","2","_","2","0","1","8","0","9",
    "0","2","T","1","5","4","6","2","1","_","0","1","7","9","_","0","3","5",
    "_","1","6","5","_","2","3","4","0","_","L","N","1","_","O","_","N","T",
    "_","0","0","2">>

\* the state holds a name by its first twelve characters; NameText is its
\* full text
NameEFR == "S3A_OL_1_EFR"
NameLST == "S3A_SL_2_LST"

NameText(name) == IF name = NameEFR THEN TextEFR ELSE TextLST

Products == { [uuid |-> "uuid-1", name |-> NameEFR],
              [uuid |-> "uuid-2", name |-> NameLST] }

Names == { p.name : p \in Products }

\* the two staging paths, load_dir_path / 'tmp' and load_dir_path / 'tmp2'
tmp_path1 == "tmp"
tmp_path2_same == "tmp"

tmp_path2 == "tmp2"

\* archive contents (zip files) a mirror can serve
Zip1 == <<"P","K","1">>
Zip2 == <<"P","K","2">>
Contents == {Zip1, Zip2}

\* answers of the Online endpoint
BTrue  == <<"t","r","u","e">>
BFalse == <<"f","a","l","s","e">>

\* values of web.api_key_daac: not configured, or a key
ApiKeys == {None, <<"k">>}

\* ------------------------------------------------------- pure functions
\* str.lower() on the characters a checksum can hold
LowerChar(c) ==
    CASE c = "A" -> "a"
      [] c = "B" -> "b"
      [] c = "C" -> "c"
      [] c = "D" -> "d"
      [] c = "E" -> "e"
      [] c = "F" -> "f"
      [] OTHER -> c

Lower(s) == [k \in 1..Len(s) |-> LowerChar(s[k])]

\* hashlib.md5(content).hexdigest(): lower-case hexadecimal text
\* (shortened to two digits)
hexdigest(content) ==
    CASE content = Zip1 -> <<"0","a">>
      [] content = Zip2 -> <<"1","b">>
      [] OTHER -> <<"f","f">>

\* what the Checksum endpoint of DHUS holds for a product: the archive
\* reports upper-case hexadecimal text (the first product is Zip1, the
\* second is Zip2)
archive(uuid) == IF uuid = "uuid-1" THEN <<"0","A">> ELSE <<"1","B">>

\* Python's  x in name  for strings: x occurs as a contiguous substring
IsSubstring(x, text) ==
    \E k \in 0..(Len(text) - Len(x)) :
        \A j \in 1..Len(x) : text[k + j] = x[j]

\* on_daac = len([x for x in DAAC_PRODUCTS if x in name])
on_daac(name) ==
    Cardinality({ k \in 1..Len(DAAC_PRODUCTS) :
                    IsSubstring(DAAC_PRODUCTS[k], NameText(name)) })

\* line 59 without the test of online_applicable
TryDhus_online_only(online_applicable, online) == online

\* line 59: the primary fetch is attempted
TryDhus(online_applicable, online) == online \/ ~online_applicable

\* line 63: the fallback block is entered
EnterFallback(online, content) == (~online) \/ (content = None)

\* line 67 without the test of on_daac
UseDaac_key_only(api_key_daac, name) == api_key_daac # None

\* line 67 without the test of web.api_key_daac
UseDaac_type_only(api_key_daac, name) == on_daac(name) > 0

\* line 67: the secondary fetch is issued
UseDaac(api_key_daac, name) == api_key_daac # None /\ on_daac(name) > 0

\* is_md5_ok without the check of lines 130-132: a failed checksum fetch
\* is not noticed
is_md5_ok_unchecked(content, md5_content) ==
    IF content = None THEN FALSE
    ELSE IF md5_content = None THEN TRUE
    ELSE hexdigest(content) = Lower(md5_content)

\* is_md5_ok, lines 125-136, given the answer of the Checksum endpoint
is_md5_ok(content, md5_content) ==
    IF content = None THEN FALSE
    ELSE IF md5_content = None THEN FALSE
    ELSE hexdigest(content) = Lower(md5_content)

\* is_online, lines 104-112, given the answer of the Online endpoint
is_online(res) ==
    IF res # None
    THEN [online_applicable |-> TRUE, online |-> (res = BTrue)]
    ELSE [online_applicable |-> FALSE, online |-> FALSE]

Min(a, b) == IF a < b THEN a ELSE b

\* chunks_of_n that yields the full chunks only
chunks_of_n_full(lst, n) ==
    [k \in 1..(Len(lst) \div n) |->
        SubSeq(lst, (k - 1) * n + 1, k * n)]

\* chunks_of_n: the list of successive n-sized chunks of lst
chunks_of_n(lst, n) ==
    [k \in 1..((Len(lst) + n - 1) \div n) |->
        SubSeq(lst, (k - 1) * n + 1, Min(k * n, Len(lst)))]

\* ------------------------------------------------------------------ state
VARIABLES
    uuids_names,   \* the input list of (uuid, name) pairs
    parallel,      \* the dispatch mode
    api_key_daac,  \* web.api_key_daac
    dirs,          \* names whose directory {name}.SEN3 exists in load_dir_path
    files,         \* staging paths that exist in load_dir_path
    pc,            \* the dispatcher: "loop", "wait" (a call is running), "done"
    i,             \* the loop index of download_parallel (from 0)
    call,          \* slot -> the call of download_single_product it runs
    invoked,       \* list position -> the staging paths of its calls
    results,       \* the return values of the finished calls, in list order
    eval           \* a call of get_orbits or make_url_daac by the caller

vars == <<eval, uuids_names, parallel, api_key_daac, dirs, files,
          pc, i, call, invoked, results>>

\* slot 1 runs the first task of a pair and every call made alone,
\* slot 2 runs the second task of a pair
Slots == {1, 2}

\* a slot that runs nothing
Idle ==
    [pc |-> "idle", idx |-> 0, uuid |-> "", name |-> "", tmp_path |-> "",
     loaded |-> FALSE, online_applicable |-> FALSE, online |-> FALSE,
     content |-> None, md5_content |-> None,
     dir_existed |-> FALSE, probes |-> 0, dhus_fetches |-> 0,
     daac_fetches |-> 0, md5_fetches |-> 0, dhus_content |-> None,
     daac_checked |-> FALSE, extracted |-> FALSE, warned_offline |-> FALSE,
     requests |-> <<>>]

\* the entry of download_single_product(uuid, name, load_dir_path, tmp_path,
\* web) for the element at list position idx: line 52
Enter(idx, product, tmp_path) ==
    [Idle EXCEPT !.pc = "l53", !.idx = idx, !.uuid = product.uuid,
                 !.name = product.name, !.tmp_path = tmp_path]

\* no call of get_orbits or make_url_daac
NoEval == [fn |-> "none", pc |-> "done", arg |-> <<>>, ret |-> <<>>,
           raised |-> FALSE]

Lists == UNION { [1..n -> Products] : n \in 0..MaxLen }

Init ==
    /\ uuids_names \in Lists
    /\ parallel \in BOOLEAN
    /\ api_key_daac \in ApiKeys
    /\ dirs \in SUBSET Names
    /\ files = {}
    /\ pc = "loop"
    /\ i = 0
    /\ call = [s \in Slots |-> Idle]
    /\ invoked = [k \in 1..Len(uuids_names) |-> <<>>]
    /\ results = <<>>
    /\ eval = NoEval

\* --------------------------------------------------- the retrying request
\* get_request(url, auth, tmp_path, ...) -> (content or None, tried): what a
\* request for content can return, and whether it leaves the staging file
GetRequestContent == Contents \cup {None}

GetRequestLeavesFile == BOOLEAN

\* --------------------------------------------------------- the dispatcher
\* a dispatcher that stops the batch at the first failed product
AfterReturn_abort(rs) == IF FALSE \in rs THEN "done" ELSE "loop"

\* the state of the dispatcher once the calls it waited for have returned;
\* their return values rs are discarded (lines 39-40, 44, 48)
AfterReturn(rs) == "loop"

Chunks == chunks_of_n(uuids_names, 2)

Started(idx, tmp_path) ==
    [invoked EXCEPT ![idx] = Append(@, tmp_path)]

\* lines 35-40: a chunk of two runs on Pool(2).starmap
DispatchPair ==
    /\ pc = "loop" /\ parallel
    /\ i < Len(Chunks)
    /\ Len(Chunks[i + 1]) = 2
    /\ LET pair == Chunks[i + 1] IN
        /\ call' = [call EXCEPT
                      ![1] = Enter(2 * i + 1, pair[1], tmp_path1),
                      ![2] = Enter(2 * i + 2, pair[2], tmp_path2)]
        /\ invoked' = [invoked EXCEPT
                         ![2 * i + 1] = Append(@, tmp_path1),
                         ![2 * i + 2] = Append(@, tmp_path2)]
    /\ pc' = "wait"
    /\ UNCHANGED <<eval, uuids_names, parallel, api_key_daac, dirs, files,
                   i, results>>

\* lines 41-44: a chunk of another length: its last element runs alone
DispatchLast ==
    /\ pc = "loop" /\ parallel
    /\ i < Len(Chunks)
    /\ Len(Chunks[i + 1]) # 2
    /\ LET pair == Chunks[i + 1] IN
        /\ call' = [call EXCEPT
                      ![1] = Enter(2 * i + Len(pair), pair[Len(pair)],
                                   tmp_path1)]
        /\ invoked' = Started(2 * i + Len(pair), tmp_path1)
    /\ pc' = "wait"
    /\ UNCHANGED <<eval, uuids_names, parallel, api_key_daac, dirs, files,
                   i, results>>

\* an enumeration from the end of the list
enumerate_reversed(lst) ==
    [k \in 1..Len(lst) |-> <<k - 1, lst[Len(lst) + 1 - k]>>]

\* enumerate(lst): the pairs (position from 0, element) in list order
enumerate(lst) == [k \in 1..Len(lst) |-> <<k - 1, lst[k]>>]

\* lines 46-48: sequential mode
DispatchSequential ==
    /\ pc = "loop" /\ ~parallel
    /\ i < Len(uuids_names)
    /\ LET item == enumerate(uuids_names)[i + 1] IN
        /\ call' = [call EXCEPT
                      ![1] = Enter(item[1] + 1, item[2], tmp_path1)]
        /\ invoked' = Started(item[1] + 1, tmp_path1)
    /\ pc' = "wait"
    /\ UNCHANGED <<eval, uuids_names, parallel, api_key_daac, dirs, files,
                   i, results>>

Running == { s \in Slots : call[s].pc # "idle" }

\* a starmap that returns as soon as one of its tasks returned
Joined_any == \E s \in Running : call[s].pc = "returned"

\* starmap (lines 38-40) blocks until every task returned, and the pool is
\* closed; a direct call (lines 44, 48) blocks until it returned
Joined == \A s \in Running : call[s].pc = "returned"

\* starmap, or the direct call, returns once every call it started returned
Return ==
    /\ pc = "wait"
    /\ Joined
    /\ results' = results \o
                    [k \in 1..Cardinality(Running) |-> call[k].loaded]
    /\ pc' = AfterReturn({ call[s].loaded : s \in Running })
    /\ i' = i + 1
    /\ call' = [s \in Slots |->
                  IF call[s].pc = "returned" THEN Idle ELSE call[s]]
    /\ UNCHANGED <<eval, uuids_names, parallel, api_key_daac, dirs, files,
                   invoked>>

\* the loop of download_parallel is exhausted
Finish ==
    /\ pc = "loop"
    /\ i >= (IF parallel THEN Len(Chunks) ELSE Len(uuids_names))
    /\ pc' = "done"
    /\ UNCHANGED <<eval, uuids_names, parallel, api_key_daac, dirs, files,
                   i, call, invoked, results>>

\* ------------------------------------------- download_single_product
\* the requests handed to get_request: the base address and the endpoint,
\* the credentials, and the product asked for
\* line 106-107, is_online
online_request(uuid) ==
    [url |-> "url_dhus", path |-> "Online/$value", auth |-> "auth_dhus",
     product |-> uuid]

\* lines 61-62
dhus_request(uuid) ==
    [url |-> "url_dhus", path |-> "$value", auth |-> "auth_dhus",
     product |-> uuid]

\* lines 69-78: no auth, a Bearer header with web.api_key_daac
daac_request(name) ==
    [url |-> "url_daac", path |-> "make_url_daac", auth |-> "api_key_daac",
     product |-> name]

\* a checksum request that asks the Online endpoint of line 106
md5_request_online(uuid) ==
    [url |-> "url_dhus", path |-> "Online/$value", auth |-> "auth_dhus",
     product |-> uuid]

\* line 92 and lines 128-129, is_md5_ok(content, uuid, web.auth_dhus,
\* web.url_dhus)
md5_request(uuid) ==
    [url |-> "url_dhus", path |-> "Checksum/Value/$value",
     auth |-> "auth_dhus", product |-> uuid]

\* an existence check that never finds the directory
is_dir_never(name) == FALSE

\* Path(load_dir_path, name + '.SEN3').is_dir()
is_dir(name) == name \in dirs

DispatcherUnchanged ==
    UNCHANGED <<eval, uuids_names, parallel, api_key_daac, pc, i,
                invoked, results>>

\* lines 53-56: the target directory exists: return True at once
AlreadyDownloaded(s) ==
    /\ call[s].pc = "l53"
    /\ is_dir(call[s].name)
    /\ call' = [call EXCEPT ![s].loaded = TRUE,
                            ![s].dir_existed = (call[s].name \in dirs),
                            ![s].pc = "returned"]
    /\ UNCHANGED <<dirs, files>>
    /\ DispatcherUnchanged

\* line 53, the directory is absent, and line 57: the status probe
\* (is_online passes no staging path to get_request)
ProbeOnline(s) ==
    /\ call[s].pc = "l53"
    /\ ~is_dir(call[s].name)
    /\ \E res \in {None, BTrue, BFalse} :
        call' = [call EXCEPT
                   ![s].dir_existed = (call[s].name \in dirs),
                   ![s].online_applicable = is_online(res).online_applicable,
                   ![s].online = is_online(res).online,
                   ![s].probes = @ + 1,
                   ![s].requests = Append(@, online_request(call[s].uuid)),
                   ![s].pc = "l59"]
    /\ UNCHANGED <<dirs, files>>
    /\ DispatcherUnchanged

\* lines 59-62: the primary fetch from DHUS, staged at tmp_path
FetchDhus(s) ==
    /\ call[s].pc = "l59"
    /\ TryDhus(call[s].online_applicable, call[s].online)
    /\ \E content \in GetRequestContent, leaves \in GetRequestLeavesFile :
        /\ call' = [call EXCEPT ![s].content = content,
                                ![s].dhus_content = content,
                                ![s].dhus_fetches = @ + 1,
                                ![s].requests =
                                    Append(@, dhus_request(call[s].uuid)),
                                ![s].pc = "l63"]
        /\ files' = IF leaves THEN files \cup {call[s].tmp_path}
                    ELSE files \ {call[s].tmp_path}
    /\ UNCHANGED dirs
    /\ DispatcherUnchanged

\* line 59 is false: the primary fetch is skipped
SkipDhus(s) ==
    /\ call[s].pc = "l59"
    /\ ~TryDhus(call[s].online_applicable, call[s].online)
    /\ call' = [call EXCEPT ![s].pc = "l63"]
    /\ UNCHANGED <<dirs, files>>
    /\ DispatcherUnchanged

\* lines 63-78: the fallback block, the product is eligible: the secondary
\* fetch from DAAC, staged at tmp_path; its result replaces content
FetchDaac(s) ==
    /\ call[s].pc = "l63"
    /\ EnterFallback(call[s].online, call[s].content)
    /\ UseDaac(api_key_daac, call[s].name)
    /\ \E content \in GetRequestContent, leaves \in GetRequestLeavesFile :
        /\ call' = [call EXCEPT
                      ![s].warned_offline = (call[s].online = FALSE),
                      ![s].daac_checked = TRUE,
                      ![s].content = content,
                      ![s].daac_fetches = @ + 1,
                      ![s].requests = Append(@, daac_request(call[s].name)),
                      ![s].pc = "l87"]
        /\ files' = IF leaves THEN files \cup {call[s].tmp_path}
                    ELSE files \ {call[s].tmp_path}
    /\ UNCHANGED dirs
    /\ DispatcherUnchanged

\* lines 63-66, 79-86: the fallback block, the product is not eligible:
\* return loaded (False)
NoMirror(s) ==
    /\ call[s].pc = "l63"
    /\ EnterFallback(call[s].online, call[s].content)
    /\ ~UseDaac(api_key_daac, call[s].name)
    /\ call' = [call EXCEPT
                  ![s].warned_offline = (call[s].online = FALSE),
                  ![s].daac_checked = TRUE,
                  ![s].pc = "returned"]
    /\ UNCHANGED <<dirs, files>>
    /\ DispatcherUnchanged

\* line 63 is false: the fallback block is skipped
SkipFallback(s) ==
    /\ call[s].pc = "l63"
    /\ ~EnterFallback(call[s].online, call[s].content)
    /\ call' = [call EXCEPT ![s].pc = "l87"]
    /\ UNCHANGED <<dirs, files>>
    /\ DispatcherUnchanged

\* a fetcher that goes back to the primary fetch when it has no content
AfterUnlink_retry(content) == IF content = None THEN "l59" ELSE "l92"

\* lines 89-91: without content return, with content go on to line 92
AfterUnlink(content) == IF content = None THEN "returned" ELSE "l92"

\* lines 87-91: remove the staging file; without content return loaded (False)
Unlink(s) ==
    /\ call[s].pc = "l87"
    /\ files' = files \ {call[s].tmp_path}
    /\ call' = [call EXCEPT ![s].pc = AfterUnlink(call[s].content)]
    /\ UNCHANGED dirs
    /\ DispatcherUnchanged

\* lines 92-95 with is_md5_ok: the checksum fetch from DHUS (it can fail)
\* and the comparison; on a failure return loaded (False)
CheckMd5(s) ==
    /\ call[s].pc = "l92"
    /\ \E md5_content \in {None, archive(call[s].uuid)} :
        call' = [call EXCEPT
                   ![s].md5_content = md5_content,
                   ![s].md5_fetches = @ + 1,
                   ![s].requests = Append(@, md5_request(call[s].uuid)),
                   ![s].pc = IF is_md5_ok(call[s].content, md5_content)
                             THEN "l96" ELSE "returned"]
    /\ UNCHANGED <<dirs, files>>
    /\ DispatcherUnchanged

\* lines 96-100: extract the archive into load_dir_path, return True
Extract(s) ==
    /\ call[s].pc = "l96"
    /\ dirs' = dirs \cup {call[s].name}
    /\ call' = [call EXCEPT ![s].extracted = TRUE,
                            ![s].loaded = TRUE,
                            ![s].pc = "returned"]
    /\ UNCHANGED files
    /\ DispatcherUnchanged

Next ==
    \/ DispatchPair
    \/ DispatchLast
    \/ DispatchSequential
    \/ Return
    \/ Finish
    \/ \E s \in Slots : AlreadyDownloaded(s)
    \/ \E s \in Slots : ProbeOnline(s)
    \/ \E s \in Slots : FetchDhus(s)
    \/ \E s \in Slots : SkipDhus(s)
    \/ \E s \in Slots : FetchDaac(s)
    \/ \E s \in Slots : NoMirror(s)
    \/ \E s \in Slots : SkipFallback(s)
    \/ \E s \in Slots : Unlink(s)
    \/ \E s \in Slots : CheckMd5(s)
    \/ \E s \in Slots : Extract(s)

Spec == Init /\ [][Next]_vars

\* ================================================================ claims
Returned(s) == call[s].pc = "returned"

\* the checksum of the content c equals, ignoring case, the reference r
Md5Equal(c, r) == Lower(hexdigest(c)) = Lower(r)

\* C1: a call that found no target directory returns True only if the MD5
\* of the content it holds equals, ignoring case, the reference checksum it
\* obtained from the archive; after a checksum mismatch or a failed checksum
\* fetch it returns False and has extracted nothing, whichever mirror
\* supplied the content.
C1_TrueOnlyWithMatchingMd5 ==
    \A s \in Slots :
        (Returned(s) /\ ~call[s].dir_existed) =>
            /\ call[s].loaded =>
                /\ call[s].content # None
                /\ call[s].md5_content = archive(call[s].uuid)
                /\ Md5Equal(call[s].content, call[s].md5_content)
            /\ ( /\ call[s].md5_fetches > 0
                 /\ \/ call[s].md5_content = None
                    \/ ~Md5Equal(call[s].content, call[s].md5_content) ) =>
                /\ ~call[s].loaded
                /\ ~call[s].extracted

\* C1 witness: a call returned True with content of the secondary mirror
\* whose checksum matched
C1_Witness ==
    \E s \in Slots :
        /\ Returned(s) /\ ~call[s].dir_existed
        /\ call[s].loaded /\ call[s].extracted
        /\ call[s].daac_fetches = 1
        /\ Md5Equal(call[s].content, call[s].md5_content)

\* C2: a call that found the target directory returns True, has made no
\* network call (status probe, primary fetch, secondary fetch, checksum
\* fetch) and has extracted nothing.
C2_ExistingDirNoNetwork ==
    \A s \in Slots :
        (Returned(s) /\ call[s].dir_existed) =>
            /\ call[s].loaded
            /\ call[s].probes = 0
            /\ call[s].dhus_fetches = 0
            /\ call[s].daac_fetches = 0
            /\ call[s].md5_fetches = 0
            /\ ~call[s].extracted

\* C2 witness: a call returned because the directory existed
C2_Witness ==
    \E s \in Slots : Returned(s) /\ call[s].dir_existed /\ call[s].loaded

\* C3: the eligibility check and the secondary fetch happen only when the
\* primary fetch gave no content; content of the primary fetch goes straight
\* to the checksum verification, whatever the probe answered.
C3_FallbackOnlyWithoutDhusContent ==
    \A s \in Slots :
        call[s].dhus_content # None =>
            /\ ~call[s].daac_checked
            /\ call[s].daac_fetches = 0
            /\ Returned(s) =>
                /\ call[s].md5_fetches = 1
                /\ call[s].content = call[s].dhus_content

\* C4: after a failed probe the primary fetch is attempted, and content of
\* it whose MD5 matches the archive's reference makes the call return True
\* (the checksum fetch itself not failing), whatever the product type and
\* whether or not a secondary API key is configured.
C4_FailedProbeIsNotOffline ==
    \A s \in Slots :
        ( /\ Returned(s)
          /\ call[s].probes = 1
          /\ ~call[s].online_applicable
          /\ call[s].dhus_content # None
          /\ Md5Equal(call[s].dhus_content, archive(call[s].uuid))
          /\ (call[s].md5_fetches = 0 \/ call[s].md5_content # None) ) =>
            /\ call[s].dhus_fetches = 1
            /\ call[s].loaded

\* C5: the probe reports offline and the product type is not mirrored: the
\* call returns False and has issued no primary fetch, no secondary fetch
\* and no checksum fetch.
C5_OfflineNotMirrored ==
    \A s \in Slots :
        ( /\ Returned(s)
          /\ call[s].probes = 1
          /\ call[s].online_applicable /\ ~call[s].online
          /\ on_daac(call[s].name) = 0 ) =>
            /\ ~call[s].loaded
            /\ call[s].dhus_fetches = 0
            /\ call[s].daac_fetches = 0
            /\ call[s].md5_fetches = 0
            /\ ~call[s].extracted

\* C5 witness: such a call returned, with a secondary API key configured
C5_Witness ==
    \E s \in Slots :
        /\ Returned(s)
        /\ call[s].probes = 1
        /\ call[s].online_applicable /\ ~call[s].online
        /\ on_daac(call[s].name) = 0
        /\ api_key_daac # None

\* C6: the probe reports offline, the product type is mirrored, no secondary
\* API key is configured: the call returns False without a secondary fetch.
C6_OfflineNoApiKey ==
    \A s \in Slots :
        ( /\ Returned(s)
          /\ call[s].probes = 1
          /\ call[s].online_applicable /\ ~call[s].online
          /\ on_daac(call[s].name) > 0
          /\ api_key_daac = None ) =>
            /\ ~call[s].loaded
            /\ call[s].daac_fetches = 0

\* C6 witness: such a call returned
C6_Witness ==
    \E s \in Slots :
        /\ Returned(s)
        /\ call[s].probes = 1
        /\ call[s].online_applicable /\ ~call[s].online
        /\ on_daac(call[s].name) > 0
        /\ api_key_daac = None

\* C7: a call that issued a content fetch (primary or secondary) returns
\* with no staging file at its tmp_path, on success and on failure.
C7_StagingFileRemoved ==
    \A s \in Slots :
        (Returned(s) /\ call[s].dhus_fetches + call[s].daac_fetches > 0) =>
            call[s].tmp_path \notin files

Odd(n) == n % 2 = 1

\* C8: in paired-parallel mode every element of the list is run exactly
\* once, on its own product: no element is ever run twice, all have been
\* run when the dispatcher is done, the elements of a full pair run together
\* as a pair, and the trailing element of an odd-length list runs alone.
C8_PairedDispatchOncePerElement ==
    parallel =>
        /\ \A k \in 1..Len(uuids_names) : Len(invoked[k]) <= 1
        /\ pc = "done" => \A k \in 1..Len(uuids_names) : Len(invoked[k]) = 1
        /\ \A s \in Running :
            /\ call[s].idx \in 1..Len(uuids_names)
            /\ uuids_names[call[s].idx] =
                 [uuid |-> call[s].uuid, name |-> call[s].name]
        /\ 2 \in Running =>
            /\ 1 \in Running
            /\ Odd(call[1].idx)
            /\ call[2].idx = call[1].idx + 1
        /\ (1 \in Running /\ call[1].idx < Len(uuids_names)) =>
            2 \in Running
        /\ (1 \in Running /\ call[1].idx = Len(uuids_names)) =>
            (Odd(Len(uuids_names)) /\ 2 \notin Running)

\* C8 witness: the dispatcher is done with a list of odd length whose last
\* element was run
C8_Witness ==
    /\ parallel
    /\ pc = "done"
    /\ Len(uuids_names) = 3
    /\ Len(invoked[3]) = 1

\* C9: in both modes the return values of the calls are booleans, and a
\* False among them does not stop the batch: when the dispatcher is done,
\* every product of the list has been run and has returned.
C9_FailureDoesNotStopBatch ==
    /\ \A k \in 1..Len(results) : results[k] \in BOOLEAN
    /\ Len(results) <= Len(uuids_names)
    /\ pc = "done" =>
        /\ Len(results) = Len(uuids_names)
        /\ \A k \in 1..Len(uuids_names) : Len(invoked[k]) >= 1

\* C9 witness: the dispatcher is done, the first product failed and a later
\* one was run all the same
C9_Witness ==
    /\ pc = "done"
    /\ Len(uuids_names) >= 2
    /\ results[1] = FALSE
    /\ Len(invoked[Len(uuids_names)]) = 1

\* C10: in paired-parallel mode at most two calls run at any moment, and two
\* calls that run at once have different staging paths, one tmp and the
\* other tmp2.
C10_DisjointStagingPaths ==
    parallel =>
        /\ Cardinality(Running) <= 2
        /\ \A s, t \in Running :
            s # t =>
                /\ call[s].tmp_path # call[t].tmp_path
                /\ {call[s].tmp_path, call[t].tmp_path} = {"tmp", "tmp2"}

\* C10 witness: two calls run at once, each between its content fetch and
\* the removal of its staging file
C10_Witness ==
    /\ parallel
    /\ call[1].pc = "l87"
    /\ call[2].pc = "l87"
    /\ files = {"tmp", "tmp2"}

\* ============================================================ get_orbits
\* longest list given to get_orbits
MaxOrbitList == 4

ORBIT_NUMBER == [start |-> 73, stop |-> 76]

MIN_ORBIT_FREQUENCY == 2

\* name[sl] for a slice of Python (positions from 0, stop excluded)
Slice(text, sl) == SubSeq(text, sl.start + 1, Min(sl.stop, Len(text)))

DigitVal(c) ==
    CASE c = "0" -> 0 [] c = "1" -> 1 [] c = "2" -> 2 [] c = "3" -> 3
      [] c = "4" -> 4 [] c = "5" -> 5 [] c = "6" -> 6 [] c = "7" -> 7
      [] c = "8" -> 8 [] c = "9" -> 9

\* int(text) for decimal digits
RECURSIVE int(_)
int(text) ==
    IF Len(text) = 0 THEN 0
    ELSE 10 * int(SubSeq(text, 1, Len(text) - 1)) + DigitVal(text[Len(text)])

\* the position (from 1) of the last element equal to x
index_last(lst, x) ==
    CHOOSE k \in 1..Len(lst) :
        lst[k] = x /\ \A j \in (k + 1)..Len(lst) : lst[j] # x

\* lst.index(x): the position (from 1) of the first element equal to x
index(lst, x) ==
    CHOOSE k \in 1..Len(lst) :
        lst[k] = x /\ \A j \in 1..(k - 1) : lst[j] # x

\* Counter(lst)[x]
Count(lst, x) == Cardinality({ k \in 1..Len(lst) : lst[k] = x })

\* the keys of Counter(lst), a dict: the distinct elements of lst in the
\* order of their first occurrence
RECURSIVE CounterKeys(_)
CounterKeys(lst) ==
    IF Len(lst) = 0 THEN <<>>
    ELSE LET front == SubSeq(lst, 1, Len(lst) - 1)
             last  == lst[Len(lst)]
         IN IF \E k \in 1..Len(front) : front[k] = last
            THEN CounterKeys(front)
            ELSE Append(CounterKeys(front), last)

\* line 149
orbits(lst) == [k \in 1..Len(lst) |-> int(Slice(lst[k].name, ORBIT_NUMBER))]

\* line 150 with v > MIN_ORBIT_FREQUENCY
frequent_orbits_strict(lst) ==
    SelectSeq(CounterKeys(orbits(lst)),
              LAMBDA x : Count(orbits(lst), x) > MIN_ORBIT_FREQUENCY)

\* line 150: the keys of frequent_orbits
frequent_orbits(lst) ==
    SelectSeq(CounterKeys(orbits(lst)),
              LAMBDA x : Count(orbits(lst), x) >= MIN_ORBIT_FREQUENCY)

\* line 151
uuids_names_o(lst) ==
    [j \in 1..Len(frequent_orbits(lst)) |->
        lst[index(orbits(lst), frequent_orbits(lst)[j])]]

\* get_orbits, lines 148-156: the list returned, or the exception raised
get_orbits(lst) ==
    IF Len(uuids_names_o(lst)) = 0
    THEN [raised |-> TRUE, ret |-> <<>>]
    ELSE [raised |-> FALSE, ret |-> uuids_names_o(lst)]

\* the text of a name with the orbit number digits
WithOrbit(text, digits) ==
    [k \in 1..Len(text) |->
        IF k \in (ORBIT_NUMBER.start + 1)..ORBIT_NUMBER.stop
        THEN digits[k - ORBIT_NUMBER.start] ELSE text[k]]

OrbitTexts == { <<"1","6","5">>, <<"0","3","5">>, <<"0","0","7">> }

\* the descriptors get_orbits is given: two uuids, three orbits
Descriptors ==
    { [uuid |-> u, name |-> WithOrbit(TextEFR, d)] :
        u \in {"uuid-1", "uuid-2"}, d \in OrbitTexts }

OrbitLists == UNION { [1..n -> Descriptors] : n \in 0..MaxOrbitList }

MainIdle ==
    /\ uuids_names = <<>>
    /\ parallel = FALSE
    /\ api_key_daac = None
    /\ dirs = {}
    /\ files = {}
    /\ pc = "done"
    /\ i = 0
    /\ call = [s \in Slots |-> Idle]
    /\ invoked = <<>>
    /\ results = <<>>

MainUnchanged ==
    UNCHANGED <<uuids_names, parallel, api_key_daac, dirs, files, pc, i,
                call, invoked, results>>

InitOrbits ==
    /\ MainIdle
    /\ \E lst \in OrbitLists :
        eval = [fn |-> "get_orbits", pc |-> "call", arg |-> lst,
                ret |-> <<>>, raised |-> FALSE]

\* the caller applies get_orbits to its list
GetOrbits ==
    /\ eval.fn = "get_orbits" /\ eval.pc = "call"
    /\ eval' = [eval EXCEPT !.pc = "done",
                            !.ret = get_orbits(eval.arg).ret,
                            !.raised = get_orbits(eval.arg).raised]
    /\ MainUnchanged

NextOrbits == GetOrbits

SpecOrbits == InitOrbits /\ [][NextOrbits]_vars

\* the orbit number of a descriptor
OrbitOf(d) == int(Slice(d.name, ORBIT_NUMBER))

\* the number of descriptors of lst with the orbit number o
Occurrences(lst, o) ==
    Cardinality({ k \in 1..Len(lst) : OrbitOf(lst[k]) = o })

SomeFrequent(lst) ==
    \E k \in 1..Len(lst) : Occurrences(lst, OrbitOf(lst[k])) >= 2

OrbitsDone == eval.fn = "get_orbits" /\ eval.pc = "done"

\* C11: given a list in which some orbit number occurs at least twice,
\* get_orbits returns at most one descriptor per orbit number; every orbit
\* returned occurs at least 2 times in the input, every orbit that occurs
\* at least 2 times is represented exactly once, and its representative is
\* the first descriptor of the input with that orbit.
C11_OneFirstDescriptorPerFrequentOrbit ==
    (OrbitsDone /\ SomeFrequent(eval.arg)) =>
        LET lst == eval.arg
            out == eval.ret
        IN  /\ ~eval.raised
            /\ \A j, k \in 1..Len(out) :
                j # k => OrbitOf(out[j]) # OrbitOf(out[k])
            /\ \A j \in 1..Len(out) :
                Occurrences(lst, OrbitOf(out[j])) >= 2
            /\ \A k \in 1..Len(lst) :
                Occurrences(lst, OrbitOf(lst[k])) >= 2 =>
                    Cardinality({ j \in 1..Len(out) :
                        OrbitOf(out[j]) = OrbitOf(lst[k]) }) = 1
            /\ \A j \in 1..Len(out) :
                \E k \in 1..Len(lst) :
                    /\ out[j] = lst[k]
                    /\ \A m \in 1..(k - 1) :
                        OrbitOf(lst[m]) # OrbitOf(out[j])

\* C11 witness: two orbits occur twice, their first descriptors differ from
\* their later ones
C11_Witness ==
    /\ OrbitsDone
    /\ Len(eval.arg) = 4
    /\ Len(eval.ret) = 2
    /\ eval.arg[1].uuid # eval.arg[3].uuid
    /\ OrbitOf(eval.arg[1]) = OrbitOf(eval.arg[3])
    /\ OrbitOf(eval.arg[2]) = OrbitOf(eval.arg[4])

\* C12: get_orbits raises exactly when no orbit number occurs at least 2
\* times in its input (the empty input included); otherwise it returns a
\* non-empty list.
C12_RaisesIffNoFrequentOrbit ==
    OrbitsDone =>
        /\ eval.raised <=> ~SomeFrequent(eval.arg)
        /\ ~eval.raised => Len(eval.ret) > 0

\* C12 witness: get_orbits raised on a list of distinct orbits
C12_Witness ==
    /\ OrbitsDone
    /\ eval.raised
    /\ Len(eval.arg) = 3

\* ========================================================= make_url_daac
URL_DAAC ==
    <<"h","t","t","p","s",":","/","/","l","a","d","s","w","e","b",".","m","o",
    "d","a","p","s",".","e","o","s","d","i","s",".","n","a","s","a",".","g",
    "o","v","/","a","r","c","h","i","v","e","/","a","l","l","D","a","t","a",
    "/","4","5","0","/">>

\* a base address without the final slash
UrlNoSlash == SubSeq(URL_DAAC, 1, Len(URL_DAAC) - 1)

DigitChar(d) ==
    CASE d = 0 -> "0" [] d = 1 -> "1" [] d = 2 -> "2" [] d = 3 -> "3"
      [] d = 4 -> "4" [] d = 5 -> "5" [] d = 6 -> "6" [] d = 7 -> "7"
      [] d = 8 -> "8" [] d = 9 -> "9"

\* the decimal text of n, zero-padded to width digits
RECURSIVE Padded(_, _)
Padded(n, width) ==
    IF width = 0 THEN <<>>
    ELSE Append(Padded(n \div 10, width - 1), DigitChar(n % 10))

IsLeap(year) == year % 4 = 0 /\ (year % 100 # 0 \/ year % 400 = 0)

DaysInMonth(year, month) ==
    CASE month \in {1, 3, 5, 7, 8, 10, 12} -> 31
      [] month \in {4, 6, 9, 11} -> 30
      [] OTHER -> IF IsLeap(year) THEN 29 ELSE 28

RECURSIVE DaysBefore(_, _)
DaysBefore(year, month) ==
    IF month = 1 THEN 0
    ELSE DaysBefore(year, month - 1) + DaysInMonth(year, month - 1)

\* datetime.strptime(text, '%Y%m%dT%H%M%S') for a valid timestamp
strptime(text) ==
    [year   |-> int(SubSeq(text, 1, 4)),
     month  |-> int(SubSeq(text, 5, 6)),
     day    |-> int(SubSeq(text, 7, 8)),
     hour   |-> int(SubSeq(text, 10, 11)),
     minute |-> int(SubSeq(text, 12, 13)),
     second |-> int(SubSeq(text, 14, 15))]

\* date.strftime('%Y')
strftime_Y(date) == Padded(date.year, 4)

\* a day of the year counted from 0
strftime_j_from_zero(date) ==
    Padded(DaysBefore(date.year, date.month) + date.day - 1, 3)

\* date.strftime('%j'): the day of the year, from 001
strftime_j(date) ==
    Padded(DaysBefore(date.year, date.month) + date.day, 3)

\* the position of the last "/" of text, 0 if there is none
LastSlash(text) ==
    IF \E k \in 1..Len(text) : text[k] = "/"
    THEN CHOOSE k \in 1..Len(text) :
            text[k] = "/" /\ \A j \in (k + 1)..Len(text) : text[j] # "/"
    ELSE 0

\* urljoin(base, rel) for a relative path rel (no scheme, no leading
\* slash, no dot segments): rel replaces what follows the last slash of base
urljoin(base, rel) == SubSeq(base, 1, LastSlash(base)) \o rel

\* '/'.join(parts)
RECURSIVE join(_)
join(parts) ==
    IF Len(parts) = 0 THEN <<>>
    ELSE IF Len(parts) = 1 THEN parts[1]
    ELSE parts[1] \o <<"/">> \o join(Tail(parts))

\* make_url_daac, lines 115-121
make_url_daac(name, url_daac) ==
    LET product_type == Slice(name, [start |-> 0, stop |-> 12])
        date == strptime(Slice(name, [start |-> 16, stop |-> 31]))
        year == strftime_Y(date)
        doy  == strftime_j(date)
    IN urljoin(url_daac,
               join(<<product_type, year, doy, name \o <<".","z","i","p">> >>))

\* the text of a name with the sensing start date year-month-day
WithStartDate(text, year, month, day) ==
    LET d == Padded(year, 4) \o Padded(month, 2) \o Padded(day, 2)
    IN [k \in 1..Len(text) |-> IF k \in 17..24 THEN d[k - 16] ELSE text[k]]

\* the names make_url_daac is given: both product types, the first and the
\* 28th day of every month of a common year and of a leap year
UrlNames ==
    { WithStartDate(t, y, m, d) :
        t \in {TextEFR, TextLST}, y \in {2018, 2020}, m \in 1..12,
        d \in {1, 28} }

InitUrl ==
    /\ MainIdle
    /\ \E name \in UrlNames, url_daac \in {URL_DAAC, UrlNoSlash} :
        eval = [fn |-> "make_url_daac", pc |-> "call",
                arg |-> [name |-> name, url_daac |-> url_daac],
                ret |-> <<>>, raised |-> FALSE]

\* the caller applies make_url_daac to a name
MakeUrlDaac ==
    /\ eval.fn = "make_url_daac" /\ eval.pc = "call"
    /\ eval' = [eval EXCEPT
                  !.pc = "done",
                  !.ret = make_url_daac(eval.arg.name, eval.arg.url_daac)]
    /\ MainUnchanged

NextUrl == MakeUrlDaac

SpecUrl == InitUrl /\ [][NextUrl]_vars

StartsWith(text, prefix) ==
    Len(text) >= Len(prefix) /\ SubSeq(text, 1, Len(prefix)) = prefix

EndsWith(text, suffix) ==
    /\ Len(text) >= Len(suffix)
    /\ SubSeq(text, Len(text) - Len(suffix) + 1, Len(text)) = suffix

\* S3A_OL_1_EFR____20180901T103822_20180901T104122_
ClaimedPrefix ==
    <<"S","3","A","_","O","L","_","1","_","E","F","R","_","_","_","_","2","0",
    "1","8","0","9","0","1","T","1","0","3","8","2","2","_","2","0","1","8",
    "0","9","0","1","T","1","0","4","1","2","2","_">>

UrlDone == eval.fn = "make_url_daac" /\ eval.pc = "done"

\* C13 as stated: for a name beginning S3A_OL_1_EFR____20180901T103822_
\* 20180901T104122_ the path returned ends OL_1_EFR___/2018/244/<name>.zip.
C13_PathHasProductType ==
    (UrlDone /\ StartsWith(eval.arg.name, ClaimedPrefix)) =>
        EndsWith(eval.ret,
                 <<"O","L","_","1","_","E","F","R","_","_","_","/","2","0",
                 "1","8","/","2","4","4","/">>
                 \o eval.arg.name \o <<".","z","i","p">>)

\* C13 as amended: for such a name the path returned ends
\* S3A_OL_1_EFR/2018/244/<name>.zip: its first segment is the first twelve
\* characters of the name, the year segment is 2018 and the day-of-year
\* segment is 244.
C13_PathHasNamePrefix ==
    (UrlDone /\ StartsWith(eval.arg.name, ClaimedPrefix)) =>
        /\ EndsWith(eval.ret,
                 <<"S","3","A","_","O","L","_","1","_","E","F","R","/","2",
                 "0","1","8","/","2","4","4","/">>
                 \o eval.arg.name \o <<".","z","i","p">>)
        /\ StartsWith(eval.ret, SubSeq(eval.arg.url_daac, 1,
                                       LastSlash(eval.arg.url_daac)))

\* C13 witness: make_url_daac returned for such a name
C13_Witness ==
    /\ UrlDone
    /\ StartsWith(eval.arg.name, ClaimedPrefix)
    /\ eval.arg.url_daac = URL_DAAC

\* ============================================================ termination
\* every call of get_request returns and the pool runs its tasks: a step
\* of the dispatcher or of a running call that can be taken is taken
\* longest input list explored for termination
MaxLiveLen == 2

LiveInit == Init /\ Len(uuids_names) <= MaxLiveLen

LiveSpec == LiveInit /\ [][Next]_vars /\ WF_vars(Next)

\* C14: download_parallel terminates: the dispatcher reaches the end of the
\* list, and no call of download_single_product makes more than one status
\* probe, one primary fetch, one secondary fetch and one checksum fetch.
C14_DispatchTerminates ==
    /\ [](\A s \in Slots :
            /\ call[s].probes <= 1
            /\ call[s].dhus_fetches <= 1
            /\ call[s].daac_fetches <= 1
            /\ call[s].md5_fetches <= 1)
    /\ <>(pc = "done" /\ Len(results) = Len(uuids_names))

\* C14 witness: the dispatcher is done with a pair of products, of which
\* one succeeded and one failed
C14_Witness ==
    /\ pc = "done"
    /\ parallel
    /\ Len(uuids_names) = 2
    /\ Len(results) = 2
    /\ \E j, k \in 1..2 : results[j] /\ ~results[k]

\* ===================================================== the fetcher, again
\* the call has passed line 59, where the primary fetch is decided
PastLine59(s) == call[s].pc \in {"l63", "l87", "l92", "l96", "returned"}

\* the probe reported the product offline
ProbedOffline(s) ==
    call[s].probes = 1 /\ call[s].online_applicable /\ ~call[s].online

\* C15: the primary fetch is attempted exactly when the target directory is
\* absent and the probe did not report offline: it is skipped when the
\* probe returned applicable and not online, attempted when the probe
\* returned online and when the probe failed.
C15_PrimaryFetchIffNotOffline ==
    \A s \in Slots :
        PastLine59(s) =>
            /\ call[s].dhus_fetches = 1 <=>
                (~call[s].dir_existed /\ ~ProbedOffline(s))
            /\ call[s].dhus_fetches = 0 <=>
                (call[s].dir_existed \/ ProbedOffline(s))

\* C15 witness: the probe failed and the primary fetch was attempted
C15_Witness ==
    \E s \in Slots :
        /\ call[s].pc = "l63"
        /\ call[s].probes = 1
        /\ ~call[s].online_applicable
        /\ call[s].dhus_fetches = 1

\* C16: the reference checksum is asked of the Checksum endpoint of the
\* primary archive, for the uuid of the product and with the credentials of
\* the primary archive, whether the content came from the primary archive or
\* from the secondary mirror; the secondary mirror is asked for content
\* only; the checksum is asked for only once content is held, as the last
\* request of the call.
C16_ChecksumFromPrimaryArchive ==
    \A s \in Slots :
        LET rq == call[s].requests IN
        /\ \A k \in 1..Len(rq) :
            /\ rq[k].url = "url_daac" => rq[k].path = "make_url_daac"
            /\ rq[k].path = "Checksum/Value/$value" =>
                /\ k = Len(rq)
                /\ k > 1
                /\ rq[k - 1].path \in {"$value", "make_url_daac"}
        /\ call[s].md5_fetches > 0 =>
            /\ call[s].content # None
            /\ rq[Len(rq)] = [url |-> "url_dhus",
                              path |-> "Checksum/Value/$value",
                              auth |-> "auth_dhus",
                              product |-> call[s].uuid]
            /\ call[s].md5_content \in {None, archive(call[s].uuid)}

\* C16 witness: the checksum was asked for after content of the secondary
\* mirror
C16_Witness ==
    \E s \in Slots :
        /\ call[s].md5_fetches = 1
        /\ call[s].daac_fetches = 1
        /\ call[s].dhus_fetches = 0
        /\ Len(call[s].requests) = 3

\* ========================================================= the dispatcher
\* C17: in paired-parallel mode the pairs run in input order and do not
\* overlap: the running calls belong to the current pair (or are the
\* trailing single element), every element of an earlier pair has run and
\* returned, no element of a later pair has started, and no call runs while
\* the dispatcher is between pairs; within a pair the two calls interleave
\* freely.
C17_PairsInOrderWithoutOverlap ==
    parallel =>
        /\ pc \in {"loop", "done"} => Running = {}
        /\ \A s \in Running : call[s].idx \in {2 * i + 1, 2 * i + 2}
        /\ \A k \in 1..Len(uuids_names) :
            /\ k <= 2 * i => (Len(invoked[k]) = 1 /\ k <= Len(results))
            /\ k > 2 * i + 2 => invoked[k] = <<>>
        /\ Len(results) \in {2 * i, Len(uuids_names)}

\* C17 witness: the trailing element runs after a pair whose second call
\* returned True and whose first call returned False
C17_Witness ==
    /\ parallel
    /\ i = 1
    /\ call[1].pc = "l59"
    /\ call[1].idx = 3
    /\ results = <<FALSE, TRUE>>

\* C18: in sequential mode the products are fetched in input order, each
\* once and one at a time, all with the staging path tmp: the only running
\* call is the one of element i + 1, every earlier element has run once and
\* returned, no later element has started.
C18_SequentialInOrder ==
    ~parallel =>
        /\ Running \subseteq {1}
        /\ pc \in {"loop", "done"} => Running = {}
        /\ \A s \in Running :
            /\ call[s].idx = i + 1
            /\ call[s].tmp_path = "tmp"
            /\ uuids_names[i + 1] =
                 [uuid |-> call[s].uuid, name |-> call[s].name]
        /\ Len(results) = i
        /\ \A k \in 1..Len(uuids_names) :
            /\ k <= i => invoked[k] = <<"tmp">>
            /\ k > i + 1 => invoked[k] = <<>>
            /\ Len(invoked[k]) <= 1
        /\ pc = "done" => i = Len(uuids_names)

\* C18 witness: the third element runs after the first two returned
C18_Witness ==
    /\ ~parallel
    /\ i = 2
    /\ call[1].pc = "l87"
    /\ call[1].idx = 3
    /\ Len(results) = 2

\* C19: the warning that the product is offline in the long term archive is
\* logged only when the probe was applicable and reported not online, never
\* when the probe failed.
C19_OfflineWarningOnlyWhenOffline ==
    \A s \in Slots :
        call[s].warned_offline =>
            (call[s].online_applicable /\ ~call[s].online)

====
